---- MODULE Spec2Model ----
(***************************************************************************)
(* Islamic History Chatbot: a retrieval-augmented question answering app.  *)
(* The model covers the citation pipeline (get_response, format_sources),  *)
(* the Streamlit script of app.py (one script run per user interaction),   *)
(* and the process-wide initialisation (initialize_chatbot,                *)
(* load_or_create_vectorstore, build_vectorstore).                         *)
(*                                                                         *)
(* Python strings are modelled as sequences of TLA+ strings (each element  *)
(* a fixed fragment of text or one character of a rendered number), so     *)
(* that concatenation is \o and rendered texts can be compared and parsed. *)
(***************************************************************************)
EXTENDS Integers, Sequences, FiniteSets, TLC

\* ------------------------------------------------------------------ bounds

\* Page numbers carried by the chunks are FirstPage .. FirstPage+NumPages-1.
FirstPage == 8
NumPages == 6
\* Script runs that process a question, over all sessions.
MaxAsked == 2
\* Browser sessions of the one server process.
NumSessions == 2
\* Retrieved lists of up to ShortLen chunks are enumerated in full.
ShortLen == 4
\* Documents the add-documents path can add to the index.
NumDocs == 2

\* ------------------------------------------------------- program constants

\* search_kwargs "k": the retriever returns at most k chunks.
k == 6
\* A limit of one page fewer.
MaxShownOneLess == 5 - 1

\* format_sources shows at most this many pages.
MaxShown == 5

\* The string "unknown" among page values (the default of metadata.get and
\* the value format_sources drops): a value that is no page number.
unknown == -1
\* A chunk whose metadata has no "page" (metadata.get("page") is None).
None == -2

Pages == FirstPage .. (FirstPage + NumPages - 1)

\* ------------------------------------------------------------ Python text

DigitChars == <<"0", "1", "2", "3", "4", "5", "6", "7", "8", "9">>

\* ord() of a digit character, relative to "0".
Ord(c) == CHOOSE d \in 0..9 : DigitChars[d + 1] = c

\* str(n) of a non-negative int: its decimal digits, most significant first.
RECURSIVE str(_)
str(n) == IF n < 10 THEN <<DigitChars[n + 1]>>
          ELSE str(n \div 10) \o <<DigitChars[(n % 10) + 1]>>

\* Numeric order on digit strings: a shorter number first.
RECURSIVE StrLessNumeric(_, _)
StrLessNumeric(a, b) ==
    IF Len(a) # Len(b) THEN Len(a) < Len(b)
    ELSE IF a = <<>> THEN FALSE
    ELSE IF Head(a) # Head(b) THEN Ord(Head(a)) < Ord(Head(b))
    ELSE StrLessNumeric(Tail(a), Tail(b))

\* Python's < on strings: lexicographic by character, a proper prefix first.
RECURSIVE StrLess(_, _)
StrLess(a, b) ==
    IF b = <<>> THEN FALSE
    ELSE IF a = <<>> THEN TRUE
    ELSE IF Head(a) # Head(b) THEN Ord(Head(a)) < Ord(Head(b))
    ELSE StrLess(Tail(a), Tail(b))

\* The elements in numeric order, each once.
RECURSIVE sorted_numeric(_)
sorted_numeric(S) ==
    IF S = {} THEN <<>>
    ELSE LET m == CHOOSE x \in S : \A y \in S \ {x} : StrLessNumeric(x, y)
         IN <<m>> \o sorted_numeric(S \ {m})

\* sorted(list(set(...))) of strings: ascending, each element once.
RECURSIVE sorted(_)
sorted(S) ==
    IF S = {} THEN <<>>
    ELSE LET m == CHOOSE x \in S : \A y \in S \ {x} : StrLess(x, y)
         IN <<m>> \o sorted(S \ {m})

\* sep.join(items)
RECURSIVE join(_, _)
join(sep, items) ==
    IF items = <<>> THEN <<>>
    ELSE IF Len(items) = 1 THEN items[1]
    ELSE items[1] \o sep \o join(sep, Tail(items))

\* A list left as it is, repeats included.
fromkeys_keeps_repeats(xs) == xs

\* list(dict.fromkeys(xs)): each value once, in order of first appearance.
RECURSIVE fromkeys(_)
fromkeys(xs) ==
    IF xs = <<>> THEN <<>>
    ELSE LET init == fromkeys(SubSeq(xs, 1, Len(xs) - 1))
             last == xs[Len(xs)]
         IN IF \E i \in DOMAIN init : init[i] = last THEN init
            ELSE Append(init, last)

\* ------------------------------------------------------------ utils.py

\* format_sources(sources)
format_sources(sources) ==
    IF sources = <<>> THEN <<"**Sources:** No specific pages referenced">>
    ELSE
      LET unique_sources ==
              sorted({str(sources[i]) :
                        i \in {j \in DOMAIN sources : sources[j] # unknown}})
      IN IF unique_sources = <<>>
           THEN <<"**Sources:** Page numbers not available">>
         ELSE IF Len(unique_sources) = 1
           THEN <<"**Source:** Page ">> \o unique_sources[1]
         ELSE IF Len(unique_sources) <= MaxShown
           THEN <<"**Sources:** Pages ">> \o join(<<", ">>, unique_sources)
         ELSE <<"**Sources:** Pages ">>
                \o join(<<", ">>, SubSeq(unique_sources, 1, MaxShown))
                \o <<" and ">> \o str(Len(unique_sources) - MaxShown)
                \o <<" more">>

\* ------------------------------------------------------------ chatbot.py

\* What qa_chain.invoke does: it raises exc, or returns a dict that may have
\* an "answer" and whose "context" is the retrieved chunks, each given by
\* the "page" of its metadata (None when it has none).
InvokeRaises(e) ==
    [raises |-> TRUE, exc |-> e, has_answer |-> FALSE, answer |-> <<>>,
     context |-> <<>>]
InvokeReturns(has, a, ctx) ==
    [raises |-> FALSE, exc |-> "", has_answer |-> has, answer |-> a,
     context |-> ctx]

\* The except branch of get_response with only str(e) as the answer.
get_response_except_bare(e) ==
    [raised |-> FALSE, answer |-> <<e>>, sources |-> <<>>,
     context_docs |-> <<>>]

\* The except branch of get_response: the result returned for exception e.
get_response_except(e) ==
    [raised |-> FALSE,
     answer |-> <<"I encountered an error while processing your question: ",
                  e,
                  ". Please try rephrasing your question.">>,
     sources |-> <<>>,
     context_docs |-> <<>>]

\* get_response(qa_chain, question), given what qa_chain.invoke did.
\* raised: whether an exception leaves get_response (every statement is
\* inside the try, and the except branch catches Exception).
get_response(result) ==
    IF result.raises
    THEN get_response_except(result.exc)
    ELSE
      LET answer == IF result.has_answer THEN result.answer
                    ELSE <<"I couldn't generate a response.">>
          paged == {i \in DOMAIN result.context : result.context[i] # None}
          kept == [n \in 1..Cardinality(paged) |->
                     result.context[CHOOSE i \in paged :
                        Cardinality({j \in paged : j <= i}) = n]]
          sources == IF result.context # <<>> THEN fromkeys(kept) ELSE <<>>
      IN [raised |-> FALSE, answer |-> answer, sources |-> sources,
          context_docs |-> result.context]

\* ------------------------------------------------------------ vectorstore.py

\* A FAISS vectorstore: how it came to be, and whether it holds no chunk.
NoVectorstore == [how |-> "none", empty |-> TRUE]

\* build_vectorstore(pdf_path). build_ok: the PDF is read, split, embedded
\* and the index saved; otherwise the exception is shown and raised again.
build_vectorstore(build_ok) ==
    IF build_ok
    THEN [raised |-> FALSE, value |-> [how |-> "built", empty |-> FALSE],
          saved |-> TRUE]
    ELSE [raised |-> TRUE, value |-> NoVectorstore, saved |-> FALSE]

\* A load failure answered with an empty index instead of a rebuild.
load_or_create_vectorstore_empty_on_failure(exists, load_ok, build_ok) ==
    IF exists
    THEN [raised |-> FALSE,
          value |-> IF load_ok THEN [how |-> "loaded", empty |-> FALSE]
                    ELSE [how |-> "loaded", empty |-> TRUE],
          exists |-> exists, tried_load |-> TRUE, load_raised |-> ~load_ok,
          rebuilt |-> FALSE]
    ELSE LET b == build_vectorstore(build_ok)
         IN [raised |-> b.raised, value |-> b.value,
             exists |-> b.saved, tried_load |-> FALSE,
             load_raised |-> FALSE, rebuilt |-> TRUE]

\* The body of load_or_create_vectorstore(pdf_path). exists: the index
\* directory is on disk; load_ok: FAISS.load_local does not raise.
\* The result records what the call did: tried_load, load_raised, rebuilt
\* (build_vectorstore was called), and whether the directory exists after.
load_or_create_vectorstore(exists, load_ok, build_ok) ==
    IF exists /\ load_ok
    THEN [raised |-> FALSE, value |-> [how |-> "loaded", empty |-> FALSE],
          exists |-> TRUE, tried_load |-> TRUE, load_raised |-> FALSE,
          rebuilt |-> FALSE]
    ELSE LET b == build_vectorstore(build_ok)
         IN [raised |-> b.raised, value |-> b.value,
             exists |-> (exists \/ b.saved), tried_load |-> exists,
             load_raised |-> exists, rebuilt |-> TRUE]

\* --------------------------------------------- st.cache_resource, chatbot.py

NoChain == [id |-> 0, vectorstore |-> NoVectorstore]
EmptyCache(none) == [has |-> FALSE, value |-> none]

\* A cache that is never hit.
cache_hit_never(cache) == FALSE

\* @st.cache_resource: the function has a cached value (it is returned
\* without running the function).
cache_hit(cache) == cache.has

\* validate_environment(): raises when OPENAI_API_KEY is not set.
validate_environment(env_key) == [raised |-> ~env_key]

\* The body of initialize_chatbot(): validate_environment, the cached
\* load_or_create_vectorstore, create_qa_chain (which only assembles the
\* chain); any exception is shown and raised again. id numbers the chain
\* built. The result carries the vectorstore cache and the directory after
\* the call, and vs_ran / vs: the run of load_or_create_vectorstore's body.
initialize_chatbot(env_key, cache_vs, exists, load_ok, build_ok, id) ==
    LET noRun == [raised |-> FALSE, value |-> NoVectorstore, exists |-> exists,
                  tried_load |-> FALSE, load_raised |-> FALSE, rebuilt |-> FALSE]
    IN
    IF validate_environment(env_key).raised
    THEN [raised |-> TRUE, why |-> "credential", chain |-> NoChain,
          cache_vs |-> cache_vs, exists |-> exists, vs_ran |-> FALSE,
          vs |-> noRun]
    ELSE
      LET hit == cache_hit(cache_vs)
          vs == IF hit THEN [noRun EXCEPT !.value = cache_vs.value]
                ELSE load_or_create_vectorstore(exists, load_ok, build_ok)
          cache_after == IF ~hit /\ ~vs.raised
                         THEN [has |-> TRUE, value |-> vs.value]
                         ELSE cache_vs
      IN IF vs.raised
         THEN [raised |-> TRUE, why |-> "index", chain |-> NoChain,
               cache_vs |-> cache_after, exists |-> vs.exists,
               vs_ran |-> ~hit, vs |-> vs]
         ELSE [raised |-> FALSE, why |-> "",
               chain |-> [id |-> id, vectorstore |-> vs.value],
               cache_vs |-> cache_after, exists |-> vs.exists,
               vs_ran |-> ~hit, vs |-> vs]

\* ------------------------------------------------------------------ app.py

\* load_sample_questions(): the labels of the sidebar buttons.
load_sample_questions ==
    << "Major events in Prophet Muhammad's life before Hijra in chronological order?",
       "Tell me about the Prophet's birth and early childhood",
       "What happened during the first revelation in the Cave of Hira?",
       "Who was Khadijah and what role did she play in the Prophet's life?",
       "Describe the persecution of early Muslims in Mecca",
       "What was the Year of Sorrow (Am al-Huzn)?",
       "Tell me about the Prophet's journey to Ta'if",
       "What was the Night Journey (Isra and Mi'raj)?",
       "Who was Abu Bakr and how did he support the Prophet?",
       "Describe the Pledge of Aqaba",
       "What led to the decision to migrate to Medina?",
       "How did the Prophet's character earn him the title 'Al-Amin'?",
       "Tell me about the Prophet's relationship with his uncle Abu Talib",
       "What was the boycott of Banu Hashim?",
       "Describe the reconstruction of the Ka'aba" >>

\* The first message of every chat history.
Greeting ==
    [role |-> "assistant",
     content |-> <<"Assalamu Alaikum! I'm here to help you learn about the life of Prophet Muhammad (peace be upon him) based on Martin Lings' biography. What would you like to know?">>]

\* st.session_state.pending_question = None
NoQuestion == <<>>

\* st.session_state of a new session: no key is set.
NewSession ==
    [chatbot_initialized |-> FALSE, qa_chain |-> NoChain,
     has_messages |-> FALSE, messages |-> <<>>,
     has_pending |-> FALSE, pending_question |-> NoQuestion]

\* What starts a script run: a plain rerun (page load, refresh), a click on
\* a sample question, or a text submitted in the chat input.
Rerun == [kind |-> "rerun", prompt |-> NoQuestion]
Click(i) == [kind |-> "click", prompt |-> <<load_sample_questions[i]>>]
Submit(text) == [kind |-> "submit", prompt |-> text]

\* response_text with the citation line appended whatever the sources are.
response_text_always_cites(res) ==
    res.answer \o <<"\n\n">> \o format_sources(res.sources)

\* response_text of both handlers: the answer, then the citation line when
\* the result has sources.
response_text(res) ==
    IF res.sources # <<>>
    THEN res.answer \o <<"\n\n">> \o format_sources(res.sources)
    ELSE res.answer

\* error_msg of both handlers (its leading cross mark left out).
error_msg(e) == <<"Sorry, I encountered an error: ", e>>

\* The pending handler with the append of the assistant message inside the
\* "if result.get('sources')" block.
handle_pending_append_in_if(messages, prompt, invoked) ==
    LET with_user == Append(messages, [role |-> "user", content |-> prompt])
        res == get_response(invoked)
    IN IF res.raised
       THEN Append(with_user, [role |-> "assistant", content |-> error_msg(invoked.exc)])
       ELSE IF res.sources # <<>>
       THEN Append(with_user, [role |-> "assistant", content |-> response_text(res)])
       ELSE with_user

\* The handler of a pending sidebar question, from the append of the user
\* message on: the messages after it.
handle_pending(messages, prompt, invoked) ==
    LET with_user == Append(messages, [role |-> "user", content |-> prompt])
        res == get_response(invoked)
    IN IF res.raised
       THEN Append(with_user, [role |-> "assistant", content |-> error_msg(invoked.exc)])
       ELSE Append(with_user, [role |-> "assistant", content |-> response_text(res)])

\* The chat input handler storing the answer without the citation line.
handle_chat_input_answer_only(messages, prompt, invoked) ==
    LET with_user == Append(messages, [role |-> "user", content |-> prompt])
        res == get_response(invoked)
    IN IF res.raised
       THEN Append(with_user, [role |-> "assistant", content |-> error_msg(invoked.exc)])
       ELSE Append(with_user, [role |-> "assistant", content |-> res.answer])

\* The chat input handler replacing the history by the new exchange.
handle_chat_input_resets(messages, prompt, invoked) ==
    LET res == get_response(invoked)
    IN << Greeting, [role |-> "user", content |-> prompt],
          [role |-> "assistant",
           content |-> IF res.raised THEN error_msg(invoked.exc)
                       ELSE response_text(res)] >>

\* The handler of a text submitted in the chat input: the messages after it.
handle_chat_input(messages, prompt, invoked) ==
    LET with_user == Append(messages, [role |-> "user", content |-> prompt])
        res == get_response(invoked)
    IN IF res.raised
       THEN Append(with_user, [role |-> "assistant", content |-> error_msg(invoked.exc)])
       ELSE Append(with_user, [role |-> "assistant", content |-> response_text(res)])

\* The script with a pending handler that does not clear pending_question.
script_after_init_keeps_pending(ss, trigger, invoked) ==
    LET s1 == IF ~ss.has_messages
              THEN [ss EXCEPT !.has_messages = TRUE, !.messages = <<Greeting>>]
              ELSE ss
        s2 == IF ~s1.has_pending
              THEN [s1 EXCEPT !.has_pending = TRUE, !.pending_question = NoQuestion]
              ELSE s1
        s3 == IF trigger.kind = "click"
              THEN [s2 EXCEPT !.pending_question = trigger.prompt]
              ELSE s2
        s4 == IF s3.pending_question # NoQuestion
              THEN [s3 EXCEPT !.messages = handle_pending(s3.messages,
                                               s3.pending_question, invoked)]
              ELSE s3
        s5 == IF trigger.kind = "submit" /\ trigger.prompt # <<"">>
              THEN [s4 EXCEPT !.messages = handle_chat_input(s4.messages,
                                               trigger.prompt, invoked)]
              ELSE s4
    IN s5

\* The script from "Initialize chat history" to its end, for a session whose
\* chatbot is initialised: the session state after the run.
script_after_init(ss, trigger, invoked) ==
    LET s1 == IF ~ss.has_messages
              THEN [ss EXCEPT !.has_messages = TRUE, !.messages = <<Greeting>>]
              ELSE ss
        s2 == IF ~s1.has_pending
              THEN [s1 EXCEPT !.has_pending = TRUE, !.pending_question = NoQuestion]
              ELSE s1
        s3 == IF trigger.kind = "click"
              THEN [s2 EXCEPT !.pending_question = trigger.prompt]
              ELSE s2
        s4 == IF s3.pending_question # NoQuestion
              THEN [s3 EXCEPT !.pending_question = NoQuestion,
                              !.messages = handle_pending(s3.messages,
                                               s3.pending_question, invoked)]
              ELSE s3
        s5 == IF trigger.kind = "submit" /\ trigger.prompt # <<"">>
              THEN [s4 EXCEPT !.messages = handle_chat_input(s4.messages,
                                               trigger.prompt, invoked)]
              ELSE s4
    IN s5

\* The except branch of the initialisation block without st.stop().
init_failed_continues(ss) == [stopped |-> FALSE, ss |-> ss]

\* The except branch of the initialisation block: the error is shown and
\* st.stop() ends the run; no key of the session state is set.
init_failed(ss) == [stopped |-> TRUE, ss |-> ss]

VARIABLES
    \* the server process
    env_key,            \* OPENAI_API_KEY is set (in the environment or .env)
    index_dir,          \* the directory data/faiss_index exists
    cache_chatbot,      \* st.cache_resource of initialize_chatbot
    cache_vectorstore,  \* st.cache_resource of load_or_create_vectorstore
    compute_lock,       \* the session computing initialize_chatbot, or 0
    n_index,            \* indexes loaded or built so far (returned by the body
                        \* of load_or_create_vectorstore)
    n_chains,           \* chains built so far by create_qa_chain
    vs_call,            \* the last run of load_or_create_vectorstore's body:
                        \* the directory existed, load_local and the build
                        \* went well (when called), and what the run did
    \* each browser session
    session_state,      \* st.session_state
    pc,                 \* "idle", "waiting" (for the lock) or "computing"
    widgets,            \* the last run rendered the sidebar and the chat input
    init_log,           \* what initialize_chatbot raised for in the session's
                        \* last run that called it: "credential" or "index",
                        \* or "" (no call, under way, or returned)
    lock_hit,           \* some call of initialize_chatbot found the value in
                        \* the cache after it had waited for the lock
    asked,              \* the questions asked, in order, with what the chain did
    last_via,           \* how the last question was asked: "click" or "submit"
    \* the citation pipeline on its own
    fn_pc,      \* "off", "input", "responded", "cited" (format_sources was
                \* called on the sources of get_response) or "formatted" (on
                \* a given list)
    result,     \* what qa_chain.invoke did (the input of get_response)
    response,   \* what get_response returned
    given,      \* the argument of the call of format_sources
    shown,      \* the text format_sources returned
    \* the add-documents path on the shared index
    mem_docs,   \* the documents added to the in-memory index
    disk_docs,  \* the added documents the index saved on disk holds
    add_pc,     \* per session thread: "off", "idle", or "appended" (between
                \* add_documents and save_local, vectorstore.py 177-180)
    returned,   \* how the thread's last add_documents_to_vectorstore call
                \* returned: "none", or the index in memory and the index on
                \* disk held the "same" documents, or they "differ"
    retrieved,  \* the thread's last search: "none", or the documents it
                \* searched were all "persisted", or some "unpersisted"
    interleaved \* a search or an add of one thread ran while another thread
                \* was between add_documents and save_local

app_vars == <<env_key, index_dir, cache_chatbot, cache_vectorstore, compute_lock,
              n_index, n_chains, vs_call, session_state, pc, widgets, init_log,
              lock_hit, asked, last_via>>
fn_vars == <<fn_pc, result, response, given, shown>>
add_vars == <<mem_docs, disk_docs, add_pc, returned, retrieved, interleaved>>
vars == <<app_vars, fn_vars, add_vars>>

NoResponse == [raised |-> FALSE, answer |-> <<>>, sources |-> <<>>,
               context_docs |-> <<>>]

Range(q) == {q[i] : i \in DOMAIN q}

\* ------------------------------------------------------ the sessions (app.py)

Sessions == 1..NumSessions

NoVsCall == [ran |-> FALSE, existed |-> FALSE, load_ok |-> FALSE,
             build_ok |-> FALSE, tried_load |-> FALSE, load_raised |-> FALSE, rebuilt |-> FALSE,
             raised |-> FALSE, value |-> NoVectorstore]

\* The sidebar buttons the sessions click (all fifteen run the same code,
\* each with its own label).
SampleButtons == {1}

\* What the chain does for the questions of the sessions.
Outcomes ==
    { InvokeRaises("Request timed out."),
      InvokeReturns(TRUE, <<"An answer.">>,
                    <<FirstPage + 3, None, FirstPage, FirstPage + 3>>),
      InvokeReturns(TRUE, <<"An answer.">>, <<None>>) }

\* The texts typed in the chat input: the sample questions and another one.
Typed == {<<load_sample_questions[i]>> : i \in SampleButtons}
         \cup {<<"  When was the Hijra?  ">>}

AskedTotal == LET RECURSIVE Sum(_)
                  Sum(S) == IF S = {} THEN 0
                            ELSE LET s == CHOOSE x \in S : TRUE
                                 IN Len(asked[s]) + Sum(S \ {s})
              IN Sum(Sessions)

\* The fn_vars of the sessions' specification: the pipeline on its own is off.
FnOff ==
    /\ fn_pc = "off"
    /\ result = InvokeRaises("")
    /\ response = NoResponse
    /\ given = <<>>
    /\ shown = <<>>

\* The add_vars of the other specifications: no code of the application
\* calls add_documents_to_vectorstore.
AddOff ==
    /\ mem_docs = {}
    /\ disk_docs = {}
    /\ add_pc = [t \in Sessions |-> "off"]
    /\ returned = [t \in Sessions |-> "none"]
    /\ retrieved = [t \in Sessions |-> "none"]
    /\ interleaved = FALSE

Init ==
    /\ env_key \in BOOLEAN
    /\ index_dir \in BOOLEAN
    /\ cache_chatbot = EmptyCache(NoChain)
    /\ cache_vectorstore = EmptyCache(NoVectorstore)
    /\ compute_lock = 0
    /\ n_index = 0
    /\ n_chains = 0
    /\ vs_call = NoVsCall
    /\ session_state = [s \in Sessions |-> NewSession]
    /\ pc = [s \in Sessions |-> "idle"]
    /\ widgets = [s \in Sessions |-> FALSE]
    /\ init_log = [s \in Sessions |-> ""]
    /\ lock_hit = FALSE
    /\ asked = [s \in Sessions |-> <<>>]
    /\ last_via = [s \in Sessions |-> ""]
    /\ FnOff
    /\ AddOff

\* The key is added to the environment or to .env (load_dotenv reads it at
\* the next validate_environment).
ProvideCredential ==
    /\ ~env_key
    /\ env_key' = TRUE
    /\ UNCHANGED <<index_dir, cache_chatbot, cache_vectorstore, compute_lock,
                   n_index, n_chains, vs_call, session_state, pc, widgets,
                   init_log, lock_hit, asked, last_via>>
    /\ UNCHANGED fn_vars
    /\ UNCHANGED add_vars

\* The interactions a session's page offers.
Triggers(s) ==
    {Rerun}
    \cup (IF widgets[s] /\ AskedTotal < MaxAsked
          THEN {Click(i) : i \in SampleButtons} \cup {Submit(t) : t \in Typed}
          ELSE {})

\* A whole script run of a session whose chatbot is initialised, or gets
\* initialised from the cache of initialize_chatbot.
RunWith(s, trigger, invoked) ==
    LET ss == session_state[s]
        ss0 == IF ss.chatbot_initialized THEN ss
               ELSE [ss EXCEPT !.qa_chain = cache_chatbot.value,
                               !.chatbot_initialized = TRUE]
        question == trigger.kind # "rerun"
    IN /\ session_state' = [session_state EXCEPT
                              ![s] = script_after_init(ss0, trigger, invoked)]
       /\ widgets' = [widgets EXCEPT ![s] = TRUE]
       /\ init_log' = [init_log EXCEPT ![s] = ""]
       /\ asked' = IF question
                   THEN [asked EXCEPT ![s] = Append(@,
                           [prompt |-> trigger.prompt, invoked |-> invoked])]
                   ELSE asked
       /\ last_via' = IF question THEN [last_via EXCEPT ![s] = trigger.kind]
                      ELSE last_via

ScriptRun(s) ==
    /\ pc[s] = "idle"
    /\ session_state[s].chatbot_initialized \/ cache_hit(cache_chatbot)
    /\ \E trigger \in Triggers(s) :
         IF trigger.kind = "rerun"
         THEN RunWith(s, trigger, InvokeRaises(""))
         ELSE \E invoked \in Outcomes : RunWith(s, trigger, invoked)
    /\ UNCHANGED <<env_key, index_dir, cache_chatbot, cache_vectorstore,
                   compute_lock, n_index, n_chains, vs_call, pc, lock_hit>>
    /\ UNCHANGED fn_vars
    /\ UNCHANGED add_vars

\* A script run reaches initialize_chatbot() and the cache has no value:
\* the call goes on to take the lock of the cached function.
EnterInit(s) ==
    /\ pc[s] = "idle"
    /\ ~session_state[s].chatbot_initialized
    /\ ~cache_hit(cache_chatbot)
    /\ pc' = [pc EXCEPT ![s] = "waiting"]
    /\ init_log' = [init_log EXCEPT ![s] = ""]
    /\ UNCHANGED <<env_key, index_dir, cache_chatbot, cache_vectorstore,
                   compute_lock, n_index, n_chains, vs_call, session_state,
                   widgets, lock_hit, asked, last_via>>
    /\ UNCHANGED fn_vars
    /\ UNCHANGED add_vars

\* The call takes the lock when no other call holds it.
AcquireLock(s) ==
    /\ pc[s] = "waiting"
    /\ compute_lock = 0
    /\ compute_lock' = s
    /\ pc' = [pc EXCEPT ![s] = "computing"]
    /\ UNCHANGED <<env_key, index_dir, cache_chatbot, cache_vectorstore,
                   n_index, n_chains, vs_call, session_state, widgets,
                   init_log, lock_hit, asked, last_via>>
    /\ UNCHANGED fn_vars
    /\ UNCHANGED add_vars

\* Under the lock: the cache is looked up again, the body of
\* initialize_chatbot runs when it still has no value, the lock is
\* released, and the script run goes on to its end (app.py from line 32).
ComputeInit(s) ==
    /\ pc[s] = "computing"
    /\ \E load_ok, build_ok \in BOOLEAN :
         LET hit == cache_hit(cache_chatbot)
             r == initialize_chatbot(env_key, cache_vectorstore, index_dir,
                                     load_ok, build_ok, n_chains + 1)
             ran == ~hit
             raised == ran /\ r.raised
             chain == IF hit THEN cache_chatbot.value ELSE r.chain
             ss == session_state[s]
             failed == init_failed(ss)
             ss_ok == script_after_init(
                         [ss EXCEPT !.qa_chain = chain,
                                    !.chatbot_initialized = TRUE],
                         Rerun, InvokeRaises(""))
             ss_failed == IF failed.stopped THEN failed.ss
                          ELSE script_after_init(failed.ss, Rerun, InvokeRaises(""))
         IN /\ cache_chatbot' = IF ran /\ ~r.raised
                                THEN [has |-> TRUE, value |-> r.chain]
                                ELSE cache_chatbot
            /\ cache_vectorstore' = IF ran THEN r.cache_vs ELSE cache_vectorstore
            /\ index_dir' = IF ran THEN r.exists ELSE index_dir
            /\ n_chains' = IF ran /\ ~r.raised THEN n_chains + 1 ELSE n_chains
            /\ n_index' = IF ran /\ r.vs_ran /\ ~r.vs.raised
                          THEN n_index + 1 ELSE n_index
            /\ vs_call' = IF ran /\ r.vs_ran
                          THEN [ran |-> TRUE, existed |-> index_dir,
                                load_ok |-> index_dir /\ load_ok,
                                build_ok |-> r.vs.rebuilt /\ build_ok,
                                tried_load |-> r.vs.tried_load,
                                load_raised |-> r.vs.load_raised,
                                rebuilt |-> r.vs.rebuilt,
                                raised |-> r.vs.raised, value |-> r.vs.value]
                          ELSE vs_call
            /\ session_state' = [session_state EXCEPT
                                   ![s] = IF raised THEN ss_failed ELSE ss_ok]
            /\ widgets' = [widgets EXCEPT
                             ![s] = ~(raised /\ failed.stopped)]
            /\ init_log' = [init_log EXCEPT ![s] = IF raised THEN r.why ELSE ""]
            /\ lock_hit' = (lock_hit \/ hit)
    /\ compute_lock' = 0
    /\ pc' = [pc EXCEPT ![s] = "idle"]
    /\ UNCHANGED <<env_key, asked, last_via>>
    /\ UNCHANGED fn_vars
    /\ UNCHANGED add_vars

Next ==
    \/ ProvideCredential
    \/ \E s \in Sessions : ScriptRun(s)
    \/ \E s \in Sessions : EnterInit(s)
    \/ \E s \in Sessions : AcquireLock(s)
    \/ \E s \in Sessions : ComputeInit(s)

Spec == Init /\ [][Next]_vars

\* ------------------------------------------------ the citation pipeline

\* The values a chunk's "page" may have, and the retrieved lists of chunks.
PageValues == Pages \cup {None, unknown}

RECURSIVE SeqsUpTo(_, _)
SeqsUpTo(S, n) ==
    IF n = 0 THEN {<<>>}
    ELSE LET shorter == SeqsUpTo(S, n - 1)
         IN shorter \cup {Append(q, x) : q \in {r \in shorter : Len(r) = n - 1}, x \in S}

\* Retrieved lists of at most n chunks: every list of at most ShortLen
\* chunks, and every longer list with at least MaxShown distinct page
\* numbers (the lists around and beyond the limit of format_sources).
Contexts(n) ==
    SeqsUpTo(PageValues, ShortLen)
    \cup {c \in SeqsUpTo(Pages, n) :
            Len(c) > ShortLen /\ Cardinality(Range(c)) >= MaxShown}

\* str(e) of the exceptions the chain raises; an exception may have no text.
Exceptions == {"Request timed out.", "Rate limit reached", ""}

\* What the chain may do when it retrieves at most n chunks.
FnOutcomes(n) ==
    {InvokeRaises(e) : e \in Exceptions}
    \cup {InvokeReturns(TRUE, <<"An answer.">>, ctx) : ctx \in Contexts(n)}
    \cup {InvokeReturns(FALSE, <<>>, ctx) : ctx \in SeqsUpTo(PageValues, 1)}

\* The app_vars of the pipeline's specification: no session runs.
AppOff ==
    /\ env_key = FALSE
    /\ index_dir = FALSE
    /\ cache_chatbot = EmptyCache(NoChain)
    /\ cache_vectorstore = EmptyCache(NoVectorstore)
    /\ compute_lock = 0
    /\ n_index = 0
    /\ n_chains = 0
    /\ vs_call = NoVsCall
    /\ session_state = [s \in Sessions |-> NewSession]
    /\ pc = [s \in Sessions |-> "off"]
    /\ widgets = [s \in Sessions |-> FALSE]
    /\ init_log = [s \in Sessions |-> ""]
    /\ lock_hit = FALSE
    /\ asked = [s \in Sessions |-> <<>>]
    /\ last_via = [s \in Sessions |-> ""]

InitFn ==
    /\ AppOff
    /\ AddOff
    /\ fn_pc = "input"
    /\ result \in FnOutcomes(k)
    /\ response = NoResponse
    /\ given = <<>>
    /\ shown = <<>>

\* A call of get_response.
CallGetResponse ==
    /\ fn_pc = "input"
    /\ response' = get_response(result)
    /\ fn_pc' = "responded"
    /\ UNCHANGED <<result, given, shown>>
    /\ UNCHANGED app_vars
    /\ UNCHANGED add_vars

\* A call of format_sources on the sources get_response returned.
CallFormatSources ==
    /\ fn_pc = "responded"
    /\ ~response.raised
    /\ given' = response.sources
    /\ shown' = format_sources(response.sources)
    /\ fn_pc' = "cited"
    /\ UNCHANGED <<result, response>>
    /\ UNCHANGED app_vars
    /\ UNCHANGED add_vars

\* A call of format_sources on a list of page values as it stands (repeats
\* included): the page values of the chunks, when every chunk has one.
CallFormatSourcesOnList ==
    /\ fn_pc = "input"
    /\ ~result.raises
    /\ None \notin Range(result.context)
    /\ given' = result.context
    /\ shown' = format_sources(result.context)
    /\ fn_pc' = "formatted"
    /\ UNCHANGED <<result, response>>
    /\ UNCHANGED app_vars
    /\ UNCHANGED add_vars

NextFn == CallGetResponse \/ CallFormatSources \/ CallFormatSourcesOnList

SpecFn == InitFn /\ [][NextFn]_vars

\* ------------------------------------------- claims on the citation pipeline

\* ------------------------------------- the add-documents path (vectorstore.py)

\* The documents a call can add.
Docs == 1..NumDocs

\* vectorstore.add_documents(new_docs): the documents are embedded and then
\* appended to the index in memory; a failure of the embedding raises before
\* anything is appended.
add_documents(mem, new_docs, embed_ok) ==
    IF embed_ok THEN [raised |-> FALSE, mem |-> mem \cup new_docs]
    ELSE [raised |-> TRUE, mem |-> mem]

\* vectorstore.save_local(save_path): the index in memory, as it is at the
\* call, replaces the one on disk; a failure to write raises.
save_local(mem, disk, save_ok) ==
    IF save_ok THEN [raised |-> FALSE, disk |-> mem]
    ELSE [raised |-> TRUE, disk |-> disk]

\* search_similar_chunks(vectorstore, query, k), and the retriever of the
\* chain: the documents the search ranges over are those in memory.
search_similar_chunks(mem) == mem

\* How a call of add_documents_to_vectorstore returns (line 182 or, from the
\* except branch, line 186: the vectorstore, in both).
ReturnOf(mem, disk) == IF mem = disk THEN "same" ELSE "differ"

\* Another thread is between add_documents and save_local.
OtherAppended(t) == \E u \in Sessions \ {t} : add_pc[u] = "appended"

InitAdd ==
    /\ AppOff
    /\ FnOff
    /\ mem_docs = {}
    /\ disk_docs = {}
    /\ add_pc = [t \in Sessions |-> "idle"]
    /\ returned = [t \in Sessions |-> "none"]
    /\ retrieved = [t \in Sessions |-> "none"]
    /\ interleaved = FALSE

\* add_documents_to_vectorstore up to line 177: the append in memory. When
\* it raises, the except branch shows the error and returns the vectorstore.
AddDocuments(t) ==
    /\ add_pc[t] = "idle"
    /\ \E new_docs \in SUBSET Docs \ {{}} : \E embed_ok \in BOOLEAN :
         LET r == add_documents(mem_docs, new_docs, embed_ok)
         IN /\ mem_docs' = r.mem
            /\ add_pc' = [add_pc EXCEPT ![t] = IF r.raised THEN "idle"
                                               ELSE "appended"]
            /\ returned' = [returned EXCEPT
                              ![t] = IF r.raised THEN ReturnOf(r.mem, disk_docs)
                                     ELSE "none"]
    /\ interleaved' = (interleaved \/ OtherAppended(t))
    /\ UNCHANGED <<disk_docs, retrieved>>
    /\ UNCHANGED app_vars
    /\ UNCHANGED fn_vars

\* add_documents_to_vectorstore from line 180: the save, and the return
\* (also when the save raised: the except branch).
SaveLocal(t) ==
    /\ add_pc[t] = "appended"
    /\ \E save_ok \in BOOLEAN :
         LET r == save_local(mem_docs, disk_docs, save_ok)
         IN /\ disk_docs' = r.disk
            /\ returned' = [returned EXCEPT ![t] = ReturnOf(mem_docs, r.disk)]
    /\ add_pc' = [add_pc EXCEPT ![t] = "idle"]
    /\ UNCHANGED <<mem_docs, retrieved, interleaved>>
    /\ UNCHANGED app_vars
    /\ UNCHANGED fn_vars

\* A search on the shared index by a thread that is not adding.
Search(t) ==
    /\ add_pc[t] = "idle"
    /\ retrieved' = [retrieved EXCEPT
                       ![t] = IF search_similar_chunks(mem_docs) \subseteq disk_docs
                              THEN "persisted" ELSE "unpersisted"]
    /\ interleaved' = (interleaved \/ OtherAppended(t))
    /\ UNCHANGED <<mem_docs, disk_docs, add_pc, returned>>
    /\ UNCHANGED app_vars
    /\ UNCHANGED fn_vars

NextAdd ==
    \/ \E t \in Sessions : AddDocuments(t)
    \/ \E t \in Sessions : SaveLocal(t)
    \/ \E t \in Sessions : Search(t)

SpecAdd == InitAdd /\ [][NextAdd]_vars

\* A text is non-empty when one of its fragments is.
NonEmptyText(t) == \E i \in DOMAIN t : t[i] # ""

\* The position of the first chunk of ctx whose page is p.
FirstIndex(ctx, p) == CHOOSE i \in DOMAIN ctx :
                        ctx[i] = p /\ \A j \in 1..(i - 1) : ctx[j] # p

\* The page numbers a citation line lists after its heading: the digit
\* strings between the separators ", ", up to the end or to " and ".
RECURSIVE ListedFrom(_, _, _)
ListedFrom(line, i, cur) ==
    IF i > Len(line) \/ line[i] = " and "
      THEN IF cur = <<>> THEN <<>> ELSE <<cur>>
    ELSE IF line[i] = ", "
      THEN <<cur>> \o ListedFrom(line, i + 1, <<>>)
    ELSE ListedFrom(line, i + 1, Append(cur, line[i]))

Listed(line) == ListedFrom(line, 2, <<>>)

\* What follows the listed pages on a citation line (from " and " on).
RECURSIVE RestFrom(_, _)
RestFrom(line, i) ==
    IF i > Len(line) THEN <<>>
    ELSE IF line[i] = " and " THEN SubSeq(line, i, Len(line))
    ELSE RestFrom(line, i + 1)

\* The distinct page numbers of a list of page values.
DistinctPages(sources) == Range(sources) \ {unknown}

\* C1: get_response never raises: whatever the chain invocation did, no
\* exception leaves it, and when the invocation raised (with any message,
\* an empty one included) the answer is a non-empty text that describes the
\* error and carries the exception's message, and the sources are empty.
C1_NeverRaises ==
    fn_pc = "responded" =>
        /\ ~response.raised
        /\ result.raises =>
             /\ NonEmptyText(response.answer)
             /\ Head(response.answer)
                  = "I encountered an error while processing your question: "
             /\ \E i \in DOMAIN response.answer : response.answer[i] = result.exc
             /\ response.sources = <<>>

\* C1's case: the chain raised an exception without text, get_response returned.
C1_Witness ==
    fn_pc = "responded" /\ result.raises /\ result.exc = ""

\* C2: the sources are exactly the page values of the chunks that have one,
\* none repeated, in the order of first appearance among the chunks.
C2_SourcesFirstAppearance ==
    (fn_pc = "responded" /\ ~result.raises) =>
        LET ctx == result.context
            src == response.sources
        IN /\ Range(src) = Range(ctx) \ {None}
           /\ \A i, j \in DOMAIN src : i # j => src[i] # src[j]
           /\ \A i, j \in DOMAIN src :
                i < j => FirstIndex(ctx, src[i]) < FirstIndex(ctx, src[j])

\* C2's case: a chunk without page between chunks, a page retrieved twice,
\* and pages first appearing in descending order.
C2_Witness ==
    /\ fn_pc = "responded"
    /\ result.context = <<FirstPage + 1, None, FirstPage, FirstPage + 1>>
    /\ response.sources = <<FirstPage + 1, FirstPage>>

\* C3: format_sources phrases by the number n of distinct page numbers of
\* its argument, repeats counted once: the empty list gives the "no pages"
\* text, n = 1 the singular "Page N", 2 <= n <= 5 the list of all n pages,
\* n > 5 five of the pages followed by "and n-5 more".
C3_PhrasingByDistinctCount ==
    fn_pc \in {"cited", "formatted"} =>
        LET D == DistinctPages(given)
            n == Cardinality(D)
            listed == Listed(shown)
        IN /\ given = <<>> =>
                shown = <<"**Sources:** No specific pages referenced">>
           /\ n = 1 =>
                \E p \in D : shown = <<"**Source:** Page ">> \o str(p)
           /\ (2 <= n /\ n <= 5) =>
                /\ Head(shown) = "**Sources:** Pages "
                /\ Len(listed) = n
                /\ Range(listed) = {str(p) : p \in D}
                /\ RestFrom(shown, 2) = <<>>
           /\ n > 5 =>
                /\ Head(shown) = "**Sources:** Pages "
                /\ Len(listed) = 5
                /\ Cardinality(Range(listed)) = 5
                /\ Range(listed) \subseteq {str(p) : p \in D}
                /\ RestFrom(shown, 2) = <<" and ">> \o str(n - 5) \o <<" more">>

\* C3's cases: a list with repeats that has exactly five distinct pages,
\* and a list of more than five distinct pages.
C3_Witness ==
    /\ fn_pc = "formatted"
    /\ Len(given) = 6
    /\ Cardinality(DistinctPages(given)) = 5
    /\ Len(Listed(shown)) = 5

C3_WitnessMore ==
    /\ fn_pc = "formatted"
    /\ Cardinality(DistinctPages(given)) = 6
    /\ RestFrom(shown, 2) = <<" and ", "1", " more">>

\* The first n elements of a sequence (all of it when it is shorter).
Take(q, n) == SubSeq(q, 1, IF Len(q) < n THEN Len(q) ELSE n)

\* The elements of q other than x, in order.
RECURSIVE Without(_, _)
Without(q, x) ==
    IF q = <<>> THEN <<>>
    ELSE IF Head(q) = x THEN Without(Tail(q), x)
    ELSE <<Head(q)>> \o Without(Tail(q), x)

\* C4 as claimed: the citation line lists the pages in the order of their
\* first occurrence among the retrieved chunks, the first five of that
\* order when there are more than five.
C4_FirstOccurrenceOrder ==
    (fn_pc = "cited" /\ DistinctPages(given) # {}) =>
        LET inOrder == Without(response.sources, unknown)
        IN Listed(shown) = Take([i \in DOMAIN inOrder |-> str(inOrder[i])], 5)

\* C4 amended: the citation line lists the pages in ascending order of
\* their decimal texts compared as strings ("10" before "9"); when there
\* are more than five, the five listed are the five least in that order.
C4_StringSortedOrder ==
    (fn_pc = "cited" /\ DistinctPages(given) # {}) =>
        LET listed == Listed(shown)
            all == {str(p) : p \in DistinctPages(given)}
        IN /\ Range(listed) \subseteq all
           /\ Len(listed) = (IF Cardinality(all) > 5 THEN 5 ELSE Cardinality(all))
           /\ \A i, j \in DOMAIN listed : i < j => StrLess(listed[i], listed[j])
           /\ \A x \in all \ Range(listed) :
                \A i \in DOMAIN listed : StrLess(listed[i], x)

\* C4's case: six pages retrieved in descending order, among them pages of
\* one and of two digits; the line lists the two-digit pages first.
C4_Witness ==
    /\ fn_pc = "cited"
    /\ Cardinality(DistinctPages(given)) = 6
    /\ \E i \in DOMAIN given : given[i] < 10
    /\ \E i \in DOMAIN given : given[i] >= 10
    /\ \A i, j \in DOMAIN given : i < j => given[i] > given[j]
    /\ Len(Listed(shown)) = 5
    /\ Len(Listed(shown)[1]) = 2

\* ------------------------------------------------- claims on the sessions

Messages(s) == session_state[s].messages

IsPrefix(a, b) == Len(a) <= Len(b) /\ SubSeq(b, 1, Len(a)) = a

\* The history of session s is the greeting and, for each question asked,
\* in order, the question as a user message and one assistant message.
WellFormedHistory(s) ==
    IF ~session_state[s].has_messages THEN asked[s] = <<>>
    ELSE LET m == Messages(s)
             a == asked[s]
         IN /\ Len(m) = 1 + 2 * Len(a)
            /\ m[1] = Greeting
            /\ \A i \in DOMAIN a :
                 /\ m[2 * i] = [role |-> "user", content |-> a[i].prompt]
                 /\ m[2 * i + 1].role = "assistant"

\* C5: the chat history is an append-only log: in every state it is the
\* greeting followed, per question in the order asked, by the question as a
\* user message and exactly one assistant message, and every step keeps the
\* history it found as a prefix of the history it leaves.
C5_AppendOnlyHistory ==
    /\ [](\A s \in Sessions : WellFormedHistory(s))
    /\ [][\A s \in Sessions :
            session_state[s].has_messages =>
              /\ session_state'[s].has_messages
              /\ IsPrefix(session_state[s].messages, session_state'[s].messages)]_vars

\* C5's case: a session asked a sample question by its button and then typed
\* another question; its history has the five messages in that order.
C5_Witness ==
    \E s \in Sessions :
        /\ Len(asked[s]) = 2
        /\ asked[s][1].prompt = <<load_sample_questions[1]>>
        /\ asked[s][2].prompt # asked[s][1].prompt
        /\ last_via[s] = "submit"
        /\ Len(Messages(s)) = 5
        /\ Messages(s)[4].content = asked[s][2].prompt

\* C6: a question whose processing failed got an assistant message that
\* describes the error (a non-empty text carrying the exception's message),
\* and the session goes on: its run ended, it is still initialised and its
\* page offers the sidebar and the chat input for further questions.
C6_FailureKeepsSession ==
    \A s \in Sessions : \A i \in DOMAIN asked[s] :
        asked[s][i].invoked.raises =>
            /\ Len(Messages(s)) >= 2 * i + 1
            /\ Messages(s)[2 * i + 1].role = "assistant"
            /\ NonEmptyText(Messages(s)[2 * i + 1].content)
            /\ \E j \in DOMAIN Messages(s)[2 * i + 1].content :
                 Messages(s)[2 * i + 1].content[j] = asked[s][i].invoked.exc
            /\ pc[s] = "idle"
            /\ session_state[s].chatbot_initialized
            /\ widgets[s]
            /\ (AskedTotal < MaxAsked => Triggers(s) # {Rerun})

\* C6's case: the first question of a session failed, and the session then
\* processed a second question that was answered with citations.
C6_Witness ==
    \E s \in Sessions :
        /\ Len(asked[s]) = 2
        /\ asked[s][1].invoked.raises
        /\ ~asked[s][2].invoked.raises
        /\ asked[s][2].invoked.context # <<None>>
        /\ Len(Messages(s)) = 5
        /\ Len(Messages(s)[5].content) > 1

\* C7: initialisation happens once per process: at most one index is loaded
\* or built and at most one chain is built, and every initialised session
\* holds that one chain, the value the cache of initialize_chatbot keeps.
C7_InitialisedOnce ==
    /\ n_index <= 1
    /\ n_chains <= 1
    /\ \A s \in Sessions :
         session_state[s].chatbot_initialized =>
            /\ cache_chatbot.has
            /\ session_state[s].qa_chain = cache_chatbot.value
            /\ session_state[s].qa_chain.id = 1
            /\ cache_vectorstore.has
            /\ session_state[s].qa_chain.vectorstore = cache_vectorstore.value

\* C7's case: one session built the chain while another waited for the lock
\* of initialize_chatbot, and the waiting one received the chain built.
C7_Witness ==
    /\ lock_hit
    /\ \E s, t \in Sessions :
        /\ s # t
        /\ session_state[s].chatbot_initialized
        /\ session_state[t].chatbot_initialized
        /\ session_state[t].qa_chain = session_state[s].qa_chain
        /\ n_index = 1

\* C8: a run of load_or_create_vectorstore rebuilds from the document
\* exactly when the index directory is absent or loading it raised; a
\* successful load is returned without rebuild; after a failed load the
\* caller gets the rebuilt, non-empty index, or the exception of the rebuild
\* when that fails too, never an empty index.
C8_RebuildIffLoadFails ==
    vs_call.ran =>
        LET load_failed == vs_call.existed /\ ~vs_call.load_ok
        IN /\ vs_call.rebuilt <=> (~vs_call.existed \/ load_failed)
           /\ (vs_call.existed /\ vs_call.load_ok) =>
                /\ ~vs_call.raised
                /\ vs_call.value = [how |-> "loaded", empty |-> FALSE]
           /\ load_failed =>
                /\ vs_call.raised <=> ~vs_call.build_ok
                /\ ~vs_call.raised =>
                     vs_call.value = [how |-> "built", empty |-> FALSE]
           /\ ~vs_call.raised => ~vs_call.value.empty

\* C8's case: the directory existed, loading it raised, and the index was
\* rebuilt and returned.
C8_Witness ==
    /\ vs_call.ran
    /\ vs_call.existed
    /\ ~vs_call.load_ok
    /\ vs_call.rebuilt
    /\ ~vs_call.raised
    /\ cache_vectorstore.value.how = "built"

\* C9: startup errors are fatal: a session whose initialisation raised for
\* the missing credential or for the index has its run stopped there: it is
\* not initialised, has no chat history, shows no sidebar and no chat
\* input, and has processed no question; and an initialisation that
\* succeeded had the credential and an index.
C9_StartupErrorsFatal ==
    \A s \in Sessions :
        /\ init_log[s] \in {"credential", "index"} =>
              /\ pc[s] = "idle"
              /\ ~session_state[s].chatbot_initialized
              /\ ~session_state[s].has_messages
              /\ ~widgets[s]
              /\ asked[s] = <<>>
        /\ session_state[s].chatbot_initialized =>
              (env_key /\ cache_vectorstore.has)
        /\ session_state[s].has_messages => session_state[s].chatbot_initialized

\* C9's case: one session was stopped for the missing credential, another
\* for an index that could be neither loaded nor built.
C9_Witness ==
    \E s, t \in Sessions :
        /\ init_log[s] = "credential"
        /\ init_log[t] = "index"
        /\ vs_call.ran /\ vs_call.raised

\* The last exchange of a history: the last user message and its answer.
LastExchange(s) == SubSeq(Messages(s), Len(Messages(s)) - 1, Len(Messages(s)))

\* C10: a sample question asked by its button and the same text typed in
\* the chat input, with the chain doing the same, leave the same user
\* message and the same assistant message; after the same questions and
\* chain outcomes two histories are equal.
C10_PresetSameAsTyped ==
    \A s, t \in Sessions :
        /\ (/\ last_via[s] = "click"
            /\ last_via[t] = "submit"
            /\ asked[s][Len(asked[s])] = asked[t][Len(asked[t])]) =>
              /\ Len(Messages(s)) >= 3
              /\ Len(Messages(t)) >= 3
              /\ LastExchange(s) = LastExchange(t)
        /\ (asked[s] = asked[t] /\ asked[s] # <<>>) => Messages(s) = Messages(t)

\* C10's case: one session clicked the sample question, another typed it,
\* and both answers carry the citation line.
C10_Witness ==
    \E s, t \in Sessions :
        /\ last_via[s] = "click"
        /\ last_via[t] = "submit"
        /\ asked[s] = asked[t]
        /\ Len(asked[s]) = 1
        /\ asked[s][1].invoked.context = <<FirstPage + 3, None, FirstPage, FirstPage + 3>>
        /\ Len(Messages(t)) = 3
        /\ Messages(t)[3].content
             = <<"An answer.", "\n\n", "**Sources:** Pages ">>
                 \o str(FirstPage + 3) \o <<", ">> \o str(FirstPage)

\* ------------------------------------------ claims on the add-documents path

\* C11: add_documents_to_vectorstore has the shared index to itself while it
\* appends and saves: no search and no other add runs between a thread's
\* add_documents and its save_local, and every call returns with the index
\* in memory and the index on disk holding the same documents.
C11_ExclusiveAddDocuments ==
    /\ ~interleaved
    /\ \A t \in Sessions : returned[t] # "differ"

\* C11's case, without any concurrency: one thread alone appended a document,
\* save_local raised, and the call returned with the document in memory only.
C11_Witness ==
    \E t \in Sessions :
        /\ ~interleaved
        /\ returned[t] = "differ"
        /\ \A u \in Sessions \ {t} : returned[u] = "none" /\ retrieved[u] = "none"
        /\ mem_docs # {}
        /\ disk_docs = {}

\* ------------------------------------------ claims on the stored answers

\* The chain returned, and one retrieved chunk at least carries a page.
HasPage(invoked) ==
    /\ ~invoked.raises
    /\ \E j \in DOMAIN invoked.context : invoked.context[j] # None

\* The text ends in a citation line that names pages: a blank line, then
\* the singular or the plural phrasing.
Cited(text) ==
    \E j \in 1..(Len(text) - 1) :
        /\ text[j] = "\n\n"
        /\ text[j + 1] \in {"**Sources:** Pages ", "**Source:** Page "}

\* The pages of the chunks, each once, in first-appearance order.
PagesOf(ctx) ==
    LET RECURSIVE Go(_, _)
        Go(i, acc) ==
            IF i > Len(ctx) THEN acc
            ELSE Go(i + 1, IF ctx[i] = None \/ ctx[i] \in Range(acc) THEN acc
                           ELSE Append(acc, ctx[i]))
    IN Go(1, <<>>)

\* C12: the assistant message stored for a question carries a citation line
\* exactly when the result has sources (some retrieved chunk has a page):
\* then it is the answer, a blank line and the line format_sources gives for
\* those pages; otherwise (the pipeline failed, or no chunk has a page) it
\* is the answer alone, and neither of the "no pages" texts is ever stored.
C12_CitationIffSources ==
    \A s \in Sessions : \A i \in DOMAIN asked[s] :
        LET inv == asked[s][i].invoked
            msg == Messages(s)[2 * i + 1].content
        IN /\ Cited(msg) <=> HasPage(inv)
           /\ HasPage(inv) =>
                msg = inv.answer \o <<"\n\n">> \o format_sources(PagesOf(inv.context))
           /\ ~HasPage(inv) => "\n\n" \notin Range(msg)
           /\ (~HasPage(inv) /\ ~inv.raises) => msg = inv.answer
           /\ "**Sources:** No specific pages referenced" \notin Range(msg)
           /\ "**Sources:** Page numbers not available" \notin Range(msg)

\* C12's case: in one session a question whose chunks carry no page was
\* stored as the bare answer, and a question with pages got its line.
C12_Witness ==
    \E s \in Sessions :
        /\ Len(asked[s]) = 2
        /\ ~asked[s][1].invoked.raises
        /\ asked[s][1].invoked.context = <<None>>
        /\ Messages(s)[3].content = <<"An answer.">>
        /\ HasPage(asked[s][2].invoked)
        /\ Cited(Messages(s)[5].content)

\* ------------------------------------------ claims on the pending question

\* The user messages of a history that hold the text.
UserMessagesOf(s, text) ==
    {j \in DOMAIN Messages(s) :
        Messages(s)[j] = [role |-> "user", content |-> text]}

\* C13: a sample question is consumed once: between script runs no session
\* has a pending question (it is None once the key is set), the history has
\* one user message and one assistant message per question asked, also when
\* its processing failed, and a run without a new question (a rerun, any
\* number of them) leaves the history as it was, while a run with one adds
\* exactly two messages.
C13_PendingConsumedOnce ==
    /\ [](\A s \in Sessions :
            /\ session_state[s].pending_question = NoQuestion
            /\ session_state[s].has_messages =>
                 /\ session_state[s].has_pending
                 /\ Len(Messages(s)) = 1 + 2 * Len(asked[s])
                 /\ \A j \in DOMAIN Messages(s) :
                      Messages(s)[j].role = IF j % 2 = 0 THEN "user"
                                            ELSE "assistant")
    /\ [][\A s \in Sessions :
            session_state[s].has_messages =>
              /\ asked'[s] = asked[s] =>
                   session_state'[s].messages = session_state[s].messages
              /\ asked'[s] # asked[s] =>
                   Len(session_state'[s].messages)
                     = Len(session_state[s].messages) + 2]_vars

\* C13's case: a session clicked a sample question whose processing failed:
\* the question is in the history once, with one assistant message after
\* it, and no question is pending.
C13_Witness ==
    \E s \in Sessions :
        /\ last_via[s] = "click"
        /\ Len(asked[s]) = 1
        /\ asked[s][1].invoked.raises
        /\ session_state[s].has_pending
        /\ session_state[s].pending_question = NoQuestion
        /\ Len(Messages(s)) = 3
        /\ UserMessagesOf(s, <<load_sample_questions[1]>>) = {2}
        /\ Messages(s)[3].role = "assistant"

====
